---- MODULE Spec2Model ----
(***************************************************************************)
(* Model of the circuit simulation engine of cirmcut: the index mapping    *)
(* (sim/src/map.rs), the stamping engine (sim/src/stamp.rs), the iteration *)
(* controller and the biconjugate-gradient backend (sim/src/solver.rs),    *)
(* and the conversion of the editor's diagram (src/circuit_widget.rs).     *)
(* Spec is the Solver; SpecBicg is one call of bicg; SpecEditor is one     *)
(* call of to_primitive_diagram; SpecApp is the frame loop of src/app.rs   *)
(* with the DiagramEditor.                                                 *)
(*                                                                         *)
(* Conventions.  Vectors (Vec<f64>, slices) are TLA+ sequences; the Rust   *)
(* index i is the sequence index i + 1, see At.  Floating point values are *)
(* abstracted to integers.  Option<usize> is an integer with None == -1.   *)
(* A panic (failed unwrap, out-of-range index or slice) is an explicit     *)
(* outcome: operators that can panic return a record with a panic field.   *)
(***************************************************************************)
EXTENDS Integers, Sequences, FiniteSets, TLC

VARIABLES
    diagram,      \* the PrimitiveDiagram handed to Solver::new, step and state
    n_timesteps,  \* n_timesteps of Solver::new, equal to cfg.n_timesteps
    map,          \* Solver.map
    soln_vector,  \* Solver.soln_vector
    pc,           \* "unbuilt" | "idle" | "nr_loop" | "panicked"
    cfg,          \* the SolverConfig of the step() call in progress or last made
    new_state,    \* nr_step: the candidate window state
    iter,         \* nr_step: number of loop rounds started so far
    last_err,     \* nr_step: last_err while the loop runs
    err,          \* nr_step: err of the last round that solved, or None
    result,       \* outcome of the last step(): "none" | "ok" | "err" | "panic"
    stamps,       \* number of stamp() calls made by the last step()
    solves,       \* number of LinearSolver::solve calls made by the last step()
    failed,       \* number of those solve calls that returned an error
    exit,         \* how the last step() left: "none" | "linear" | "empty" |
                  \*   "break" | "exhausted" | "solve_err" | "panic"
    outputs,      \* result of the last state() call, or NoOutputs
    bicg,         \* the bicg() call in progress or last made, or NoBicg
    editor,       \* the editor's Diagram and whether it has been converted
    app           \* the application: DiagramEditor, diagram, Solver, error, paused

vars == <<diagram, n_timesteps, map, soln_vector, pc, cfg, new_state, iter,
          last_err, err, result, stamps, solves, failed, exit, outputs, bicg,
          editor, app>>

---------------------------------------------------------------------------
(* Bounds of the model *)

MaxNodes == 2
MaxTwo == 2
MaxThree == 1
MaxTimesteps == 2
MaxIters == 2
MaxWeight == 2
MaxSupport == 2
MaxCells == 3
MaxEditorComponents == 2
MaxAppComponents == 2

---------------------------------------------------------------------------
(* Helpers for Rust's usize arithmetic, vectors and ranges *)

None == -1

SatSub(a, b) == IF a >= b THEN a - b ELSE 0

At(v, i) == v[i + 1]

InBounds(v, i) == i >= 0 /\ i < Len(v)

Zeros(n) == [i \in 1..n |-> 0]

RECURSIVE Flatten(_)
Flatten(ss) == IF Len(ss) = 0 THEN <<>> ELSE Head(ss) \o Flatten(Tail(ss))

RECURSIVE SumSeq(_)
SumSeq(v) == IF Len(v) = 0 THEN 0 ELSE Head(v) + SumSeq(Tail(v))

SeqsUpTo(S, n) == UNION {[1..k -> S] : k \in 0..n}

\* std::ops::Range<usize>
Range(s, e) == [start |-> s, end |-> e]

RangeLen(r) == SatSub(r.end, r.start)

\* Iterator::nth on a Range<usize>
nth(r, k) == IF r.start + k < r.end THEN r.start + k ELSE None

---------------------------------------------------------------------------
(* Topology model: sim/src/lib.rs *)

\* An inductor carries the core id the component editor gives it
\* (circuit_widget.rs:829-836), None when it has none.
TwoTerminalComponent ==
    { [kind |-> "Wire", val |-> 0],
      [kind |-> "Resistor", val |-> 2],
      [kind |-> "Inductor", val |-> 3, core_id |-> None],
      [kind |-> "Inductor", val |-> 3, core_id |-> 0],
      [kind |-> "Capacitor", val |-> 4],
      [kind |-> "Diode", val |-> 0],
      [kind |-> "Battery", val |-> 5],
      [kind |-> "Switch", val |-> 1],       \* Switch(true): open
      [kind |-> "Switch", val |-> 0],       \* Switch(false): closed
      [kind |-> "CurrentSource", val |-> 6] }

ThreeTerminalComponent ==
    { [kind |-> "PTransistor", val |-> 7],
      [kind |-> "NTransistor", val |-> 7] }

\* The two-terminal lists explored are the windows of this cyclic catalogue:
\* every kind occurs at every position of a list.
Catalogue ==
    << [kind |-> "Wire", val |-> 0],
       [kind |-> "Resistor", val |-> 2],
       [kind |-> "Switch", val |-> 1],
       [kind |-> "Switch", val |-> 0],
       [kind |-> "Battery", val |-> 5],
       [kind |-> "Capacitor", val |-> 4],
       [kind |-> "Inductor", val |-> 3, core_id |-> None],
       [kind |-> "Diode", val |-> 0],
       [kind |-> "CurrentSource", val |-> 6] >>

Window(first, k) == [i \in 1..k |-> Catalogue[((first + i - 2) % Len(Catalogue)) + 1]]

TwoTerminalLists ==
    {Window(first, k) : first \in 1..Len(Catalogue), k \in 0..MaxTwo}

ThreeTerminalLists == SeqsUpTo(ThreeTerminalComponent, MaxThree)

\* The topologies explored are single loops: with nn nodes, the i-th
\* two-terminal component (i from 0) runs from node i mod nn to node
\* (i + 1) mod nn, and a three-terminal component sits on nodes 0, 1 mod nn,
\* 2 mod nn.  Every node index is < num_nodes (well-formed); node nn - 1 is
\* the ground.
TwoNodes(nn, i) == <<i % nn, (i + 1) % nn>>

ThreeNodes(nn) == <<0, 1 % nn, 2 % nn>>

PrimitiveDiagram(nn, twos, threes) ==
    [num_nodes |-> nn,
     two_terminal |-> [i \in 1..Len(twos) |->
                          [nodes |-> TwoNodes(nn, i - 1), comp |-> twos[i]]],
     three_terminal |-> [j \in 1..Len(threes) |->
                          [nodes |-> ThreeNodes(nn), comp |-> threes[j]]]]

\* The voltage divider: resistors R1 (node 0 to node 1) and R2 (node 1 to
\* node 2, the ground) in series with a battery (node 2 to node 0)
VoltageDivider ==
    PrimitiveDiagram(3,
                     << [kind |-> "Resistor", val |-> 2],
                        [kind |-> "Resistor", val |-> 2],
                        [kind |-> "Battery", val |-> 6] >>,
                     <<>>)

\* Two inductors on one core, as the component editor builds them
\* (Inductor(i, maybe_coreid) with the "Core ID" box ticked), in one loop
CoupledInductors ==
    PrimitiveDiagram(2,
                     << [kind |-> "Inductor", val |-> 3, core_id |-> 0],
                        [kind |-> "Inductor", val |-> 3, core_id |-> 0] >>,
                     <<>>)

Diagrams ==
    {PrimitiveDiagram(0, <<>>, <<>>), VoltageDivider, CoupledInductors} \cup
    {PrimitiveDiagram(nn, twos, threes) :
        nn \in 1..MaxNodes,
        twos \in TwoTerminalLists,
        threes \in ThreeTerminalLists}

WellFormed(d) ==
    /\ \A i \in 1..Len(d.two_terminal) :
          \A t \in 1..2 : d.two_terminal[i].nodes[t] < d.num_nodes
    /\ \A j \in 1..Len(d.three_terminal) :
          \A t \in 1..3 : d.three_terminal[j].nodes[t] < d.num_nodes

---------------------------------------------------------------------------
(* Index mapping: sim/src/map.rs *)

\* ParameterMappingNew with the voltage laws of three-terminal components
\* counted and nothing else adapted
ParameterMappingNew_three(d) ==
    [n_components |-> Len(d.two_terminal),
     n_voltage_laws |-> Len(d.two_terminal) + 2 * Len(d.three_terminal),
     n_current_laws |-> SatSub(d.num_nodes, 1)]

ParameterMappingNew(d) ==
    [n_components |-> Len(d.two_terminal),
     n_voltage_laws |-> Len(d.two_terminal),
     n_current_laws |-> SatSub(d.num_nodes, 1)]

components(pm) == Range(0, pm.n_components)

current_laws(pm) ==
    LET base == components(pm).end IN Range(base, base + pm.n_current_laws)

voltage_laws(pm) ==
    LET base == current_laws(pm).end IN Range(base, base + pm.n_voltage_laws)

param_total_len(pm) == pm.n_current_laws + pm.n_voltage_laws + pm.n_components

StateVectorMappingNew(d) ==
    [n_currents |-> Len(d.two_terminal),
     n_voltage_drops |-> Len(d.two_terminal),
     n_voltages |-> SatSub(d.num_nodes, 1)]

currents(sm) == Range(0, sm.n_currents)

\* voltage_drops based at 0 instead of at the end of currents
voltage_drops_from_zero(sm) == Range(0, sm.n_voltage_drops)

voltage_drops(sm) ==
    LET base == currents(sm).end IN Range(base, base + sm.n_voltage_drops)

voltages(sm) ==
    LET base == voltage_drops(sm).end IN Range(base, base + sm.n_voltages)

state_total_len(sm) == sm.n_currents + sm.n_voltages + sm.n_voltage_drops

MappingNew(d) ==
    [state_map |-> StateVectorMappingNew(d),
     param_map |-> ParameterMappingNew(d)]

\* debug_assert_eq!(state_map.total_len(), param_map.total_len())
vector_size_assert(m) == state_total_len(m.state_map) = param_total_len(m.param_map)

vector_size(m) == state_total_len(m.state_map)

---------------------------------------------------------------------------
(* Stamping engine: sim/src/stamp.rs *)

\* matrix.append(row, column, value) on the triplet list
Entry(r, c, v) == <<r, c, v>>

\* Result of stamping one part: whether it panicked, the entries appended to
\* the matrix and the writes made to the params slice (<<index, value>>).
Part(p, es, ws) == [panic |-> p, entries |-> es, writes |-> ws]

PanicPart == Part(TRUE, <<>>, <<>>)

JoinParts(ps) ==
    IF \E i \in 1..Len(ps) : ps[i].panic
    THEN PanicPart
    ELSE Part(FALSE,
              Flatten([i \in 1..Len(ps) |-> ps[i].entries]),
              Flatten([i \in 1..Len(ps) |-> ps[i].writes]))

\* f64::exp on the integer abstraction: 1 at 0, doubling per unit, 0 below 0
RECURSIVE ExpAbs(_)
ExpAbs(v) == IF v < 0 THEN 0 ELSE IF v = 0 THEN 1 ELSE 2 * ExpAbs(v - 1)

\* diode_eq: first-order expansion of the diode law about the last iterate,
\* with sat_current and nvt abstracted to 1.  Returns <<coeff, param>>.
diode_eq(last_iteration_voltage) ==
    LET sat_current == 1
        nvt == 1
        v0 == last_iteration_voltage
        ex == ExpAbs(v0 \div nvt)
        coeff == (0 - (sat_current \div nvt)) * ex
        param == sat_current * (1 - ex + ((v0 * ex) \div nvt))
    IN  <<coeff, param>>

\* stamp_timestep, lines 58-71: current law of the k-th two-terminal component
current_law_two(m, offset, k, nodes) ==
    LET begin_node_idx == nodes[1]
        end_node_idx == nodes[2]
        current_idx == nth(currents(m.state_map), k)
        end_law == nth(current_laws(m.param_map), end_node_idx)
        begin_law == nth(current_laws(m.param_map), begin_node_idx)
    IN  IF current_idx = None THEN PanicPart
        ELSE Part(FALSE,
                  (IF end_law # None
                   THEN <<Entry(offset + end_law, offset + current_idx, 1)>>
                   ELSE <<>>) \o
                  (IF begin_law # None
                   THEN <<Entry(offset + begin_law, offset + current_idx, -1)>>
                   ELSE <<>>),
                  <<>>)

\* stamp_timestep, lines 73-94: current laws of the three-terminal component
\* whose first current slot is total_current_idx
current_law_three(m, offset, total_current_idx, nodes) ==
    LET i_ab_idx == nth(currents(m.state_map), total_current_idx)
        i_bc_idx == nth(currents(m.state_map), total_current_idx + 1)
        a_idx == nth(current_laws(m.param_map), nodes[1])
        b_idx == nth(current_laws(m.param_map), nodes[2])
        c_idx == nth(current_laws(m.param_map), nodes[3])
    IN  IF i_ab_idx = None \/ i_bc_idx = None THEN PanicPart
        ELSE Part(FALSE,
                  (IF a_idx # None
                   THEN <<Entry(offset + a_idx, offset + i_ab_idx, 1)>>
                   ELSE <<>>) \o
                  (IF b_idx # None
                   THEN <<Entry(offset + b_idx, offset + i_ab_idx, -1),
                          Entry(offset + b_idx, offset + i_bc_idx, 1)>>
                   ELSE <<>>) \o
                  (IF c_idx # None
                   THEN <<Entry(offset + c_idx, offset + i_bc_idx, -1)>>
                   ELSE <<>>),
                  <<>>)

\* voltage_law_two with the signs of the two node voltages exchanged: -1 on
\* the end node's voltage, +1 on the begin node's
voltage_law_two_end_minus_begin(m, offset, k, nodes) ==
    LET begin_node_idx == nodes[1]
        end_node_idx == nodes[2]
        voltage_law_idx == nth(voltage_laws(m.param_map), k)
        voltage_drop_idx == nth(voltage_drops(m.state_map), k)
        end_voltage_idx == nth(voltages(m.state_map), end_node_idx)
        begin_voltage_idx == nth(voltages(m.state_map), begin_node_idx)
    IN  IF voltage_law_idx = None \/ voltage_drop_idx = None THEN PanicPart
        ELSE Part(FALSE,
                  <<Entry(offset + voltage_law_idx, offset + voltage_drop_idx, 1)>> \o
                  (IF end_voltage_idx # None
                   THEN <<Entry(offset + voltage_law_idx, offset + end_voltage_idx, -1)>>
                   ELSE <<>>) \o
                  (IF begin_voltage_idx # None
                   THEN <<Entry(offset + voltage_law_idx, offset + begin_voltage_idx, 1)>>
                   ELSE <<>>),
                  <<>>)

\* stamp_timestep, lines 98-118: voltage law of the k-th two-terminal component
voltage_law_two(m, offset, k, nodes) ==
    LET begin_node_idx == nodes[1]
        end_node_idx == nodes[2]
        voltage_law_idx == nth(voltage_laws(m.param_map), k)
        voltage_drop_idx == nth(voltage_drops(m.state_map), k)
        end_voltage_idx == nth(voltages(m.state_map), end_node_idx)
        begin_voltage_idx == nth(voltages(m.state_map), begin_node_idx)
    IN  IF voltage_law_idx = None \/ voltage_drop_idx = None THEN PanicPart
        ELSE Part(FALSE,
                  <<Entry(offset + voltage_law_idx, offset + voltage_drop_idx, 1)>> \o
                  (IF end_voltage_idx # None
                   THEN <<Entry(offset + voltage_law_idx, offset + end_voltage_idx, 1)>>
                   ELSE <<>>) \o
                  (IF begin_voltage_idx # None
                   THEN <<Entry(offset + voltage_law_idx, offset + begin_voltage_idx, -1)>>
                   ELSE <<>>),
                  <<>>)

\* stamp_timestep, lines 120-157: voltage laws of the three-terminal component
\* whose first voltage-drop slot is total_voltage_idx
voltage_law_three(m, offset, total_voltage_idx, nodes) ==
    LET v_ab_law_idx == nth(voltage_laws(m.param_map), total_voltage_idx)
        v_ab_drop_idx == nth(voltage_drops(m.state_map), total_voltage_idx)
        v_bc_law_idx == nth(voltage_laws(m.param_map), total_voltage_idx + 1)
        v_bc_drop_idx == nth(voltage_drops(m.state_map), total_voltage_idx + 1)
        a == nth(voltages(m.state_map), nodes[1])
        b == nth(voltages(m.state_map), nodes[2])
        c == nth(voltages(m.state_map), nodes[3])
    IN  IF \/ v_ab_law_idx = None \/ v_ab_drop_idx = None
           \/ v_bc_law_idx = None \/ v_bc_drop_idx = None
        THEN PanicPart
        ELSE Part(FALSE,
                  <<Entry(offset + v_ab_law_idx, offset + v_ab_drop_idx, 1),
                    Entry(offset + v_bc_law_idx, offset + v_bc_drop_idx, 1)>> \o
                  (IF a # None
                   THEN <<Entry(offset + v_ab_law_idx, offset + a, 1)>>
                   ELSE <<>>) \o
                  (IF b # None
                   THEN <<Entry(offset + v_ab_law_idx, offset + b, -1),
                          Entry(offset + v_bc_law_idx, offset + b, 1)>>
                   ELSE <<>>) \o
                  (IF c # None
                   THEN <<Entry(offset + v_bc_law_idx, offset + c, -1)>>
                   ELSE <<>>),
                  <<>>)

\* Option<&[f64]>
SomeVec(v) == [some |-> TRUE, v |-> v]

NoneVec == [some |-> FALSE, v |-> <<>>]

\* stamp_timestep, lines 161-245: the component row of the k-th two-terminal
\* component.  Reading a slice out of range panics.
component_two(m, offset, prev_timestep_offset, dt, k, item, last_iteration, last_timestep) ==
    LET law_idx == nth(components(m.param_map), k)
        current_idx == nth(currents(m.state_map), k)
        voltage_drop_idx == nth(voltage_drops(m.state_map), k)
        kind == item.comp.kind
        val == item.comp.val
        begin_node_idx == item.nodes[1]
        end_node_idx == item.nodes[2]
        end_v == nth(voltages(m.state_map), end_node_idx)
        begin_v == nth(voltages(m.state_map), begin_node_idx)
    IN  IF law_idx = None \/ current_idx = None \/ voltage_drop_idx = None
        THEN PanicPart
        ELSE CASE kind = "Resistor" ->
                    Part(FALSE,
                         <<Entry(offset + law_idx, offset + current_idx, 0 - val),
                           Entry(offset + law_idx, offset + voltage_drop_idx, 1)>>,
                         <<>>)
               [] kind = "Wire" ->
                    Part(FALSE,
                         (IF end_v # None
                          THEN <<Entry(offset + law_idx, offset + end_v, 1)>>
                          ELSE <<>>) \o
                         (IF begin_v # None
                          THEN <<Entry(offset + law_idx, offset + begin_v, -1)>>
                          ELSE <<>>),
                         <<>>)
               [] kind = "Switch" ->
                    IF val = 1
                    THEN Part(FALSE, <<Entry(offset + law_idx, offset + current_idx, 1)>>, <<>>)
                    ELSE Part(FALSE, <<Entry(offset + law_idx, offset + voltage_drop_idx, 1)>>, <<>>)
               [] kind = "Battery" ->
                    Part(FALSE,
                         <<Entry(offset + law_idx, offset + voltage_drop_idx, -1)>>,
                         <<<<offset + law_idx, val>>>>)
               [] kind = "Capacitor" ->
                    IF last_timestep.some
                    THEN IF ~InBounds(last_timestep.v, voltage_drop_idx) THEN PanicPart
                         ELSE Part(FALSE,
                                   <<Entry(offset + law_idx, offset + current_idx, 0 - dt),
                                     Entry(offset + law_idx, offset + voltage_drop_idx, val)>>,
                                   <<<<offset + law_idx,
                                       At(last_timestep.v, voltage_drop_idx) * val>>>>)
                    ELSE Part(FALSE,
                              <<Entry(offset + law_idx, offset + current_idx, 0 - dt),
                                Entry(offset + law_idx, offset + voltage_drop_idx, val),
                                Entry(offset + law_idx,
                                      prev_timestep_offset + voltage_drop_idx, 0 - val)>>,
                              <<>>)
               [] kind = "Inductor" ->
                    IF last_timestep.some
                    THEN IF ~InBounds(last_timestep.v, current_idx) THEN PanicPart
                         ELSE Part(FALSE,
                                   <<Entry(offset + law_idx, offset + voltage_drop_idx, dt),
                                     Entry(offset + law_idx, offset + current_idx, 0 - val)>>,
                                   <<<<offset + law_idx,
                                       (0 - At(last_timestep.v, current_idx)) * val>>>>)
                    ELSE Part(FALSE,
                              <<Entry(offset + law_idx, offset + voltage_drop_idx, dt),
                                Entry(offset + law_idx, offset + current_idx, 0 - val),
                                Entry(offset + law_idx,
                                      prev_timestep_offset + current_idx, val)>>,
                              <<>>)
               [] kind = "Diode" ->
                    IF ~InBounds(last_iteration, offset + voltage_drop_idx) THEN PanicPart
                    ELSE LET eq == diode_eq(At(last_iteration, offset + voltage_drop_idx))
                         IN  Part(FALSE,
                                  <<Entry(offset + law_idx, offset + voltage_drop_idx, eq[1]),
                                    Entry(offset + law_idx, offset + current_idx, 1)>>,
                                  <<<<offset + law_idx, eq[2]>>>>)
               [] kind = "CurrentSource" ->
                    Part(FALSE,
                         <<Entry(offset + law_idx, offset + current_idx, 1)>>,
                         <<<<offset + law_idx, val>>>>)

\* stamp_timestep, lines 247-286: the two component rows of the three-terminal
\* component whose first slot is total_idx.  af and ar (0.98 and 0.1) are
\* abstracted to 1 and 0.
component_three(m, offset, total_idx, item, last_iteration) ==
    LET ab_law_idx == nth(components(m.param_map), total_idx)
        ab_current_idx == nth(currents(m.state_map), total_idx)
        ab_voltage_drop_idx == nth(voltage_drops(m.state_map), total_idx)
        bc_law_idx == nth(components(m.param_map), total_idx + 1)
        bc_current_idx == nth(currents(m.state_map), total_idx + 1)
        bc_voltage_drop_idx == nth(voltage_drops(m.state_map), total_idx + 1)
        sign == IF item.comp.kind = "NTransistor" THEN 1 ELSE -1
        af == 1
        ar == 0
    IN  IF \/ ab_law_idx = None \/ ab_current_idx = None \/ ab_voltage_drop_idx = None
           \/ bc_law_idx = None \/ bc_current_idx = None \/ bc_voltage_drop_idx = None
        THEN PanicPart
        ELSE IF \/ ~InBounds(last_iteration, offset + ab_voltage_drop_idx)
                \/ ~InBounds(last_iteration, offset + bc_voltage_drop_idx)
                \/ ~InBounds(last_iteration, offset + ab_current_idx)
                \/ ~InBounds(last_iteration, offset + bc_current_idx)
        THEN PanicPart
        ELSE LET eq_ab == diode_eq(sign * At(last_iteration, offset + ab_voltage_drop_idx))
                 eq_bc == diode_eq((0 - sign) * At(last_iteration, offset + bc_voltage_drop_idx))
                 diode_param_bc == eq_bc[2] + af * At(last_iteration, offset + ab_current_idx)
                 diode_param_ab == eq_ab[2] + ar * At(last_iteration, offset + bc_current_idx)
             IN  Part(FALSE,
                      <<Entry(offset + ab_law_idx, offset + ab_voltage_drop_idx, eq_ab[1]),
                        Entry(offset + ab_law_idx, offset + ab_current_idx, 1),
                        Entry(offset + bc_law_idx, offset + bc_voltage_drop_idx, eq_bc[1]),
                        Entry(offset + bc_law_idx, offset + bc_current_idx, 1)>>,
                      <<<<offset + ab_law_idx, diode_param_ab>>,
                        <<offset + bc_law_idx, diode_param_bc>>>>)

\* stamp_timestep: params is a slice of length params_len; a write at an index
\* >= params_len panics.
stamp_timestep(params_len, time_step_idx, dt, m, d, last_iteration, last_timestep, nts) ==
    LET n == vector_size(m) * nts
        offset == n * time_step_idx
        prev_timestep_offset == SatSub(n, 1) * time_step_idx
        n2 == Len(d.two_terminal)
        n3 == Len(d.three_terminal)
        all == JoinParts(
            [i \in 1..n2 |-> current_law_two(m, offset, i - 1, d.two_terminal[i].nodes)] \o
            [j \in 1..n3 |-> current_law_three(m, offset, n2 + 2 * (j - 1),
                                               d.three_terminal[j].nodes)] \o
            [i \in 1..n2 |-> voltage_law_two(m, offset, i - 1, d.two_terminal[i].nodes)] \o
            [j \in 1..n3 |-> voltage_law_three(m, offset, n2 + 2 * (j - 1),
                                               d.three_terminal[j].nodes)] \o
            [i \in 1..n2 |-> component_two(m, offset, prev_timestep_offset, dt, i - 1,
                                           d.two_terminal[i], last_iteration, last_timestep)] \o
            [j \in 1..n3 |-> component_three(m, offset, n2 + 2 * (j - 1),
                                             d.three_terminal[j], last_iteration)])
    IN  IF all.panic THEN PanicPart
        ELSE IF \E w \in 1..Len(all.writes) : all.writes[w][1] >= params_len
        THEN PanicPart
        ELSE all

RECURSIVE ApplyWrites(_, _)
ApplyWrites(v, ws) ==
    IF Len(ws) = 0 THEN v
    ELSE ApplyWrites([v EXCEPT ![Head(ws)[1] + 1] = Head(ws)[2]], Tail(ws))

\* The slice of params handed to stamp_timestep for block time_step_idx
params_slice(n, time_step_idx) == Range(time_step_idx * n, time_step_idx * (n + 1))

\* stamp: returns [panic, matrix, params]; slicing params out of range panics
stamp(dt, m, d, last_iteration, last_timestep, nts) ==
    LET n == vector_size(m) * nts
        slice(i) == params_slice(n, i)
        slice_ok(i) == slice(i).start <= slice(i).end /\ slice(i).end <= n
        blocks == [b \in 1..nts |->
                     IF ~slice_ok(b - 1) THEN PanicPart
                     ELSE stamp_timestep(RangeLen(slice(b - 1)), b - 1, dt, m, d,
                                         last_iteration,
                                         IF b - 1 = 0 THEN SomeVec(last_timestep) ELSE NoneVec,
                                         nts)]
    IN  IF \E b \in 1..nts : blocks[b].panic
        THEN [panic |-> TRUE, matrix |-> <<>>, params |-> <<>>]
        ELSE [panic |-> FALSE,
              matrix |-> Flatten([b \in 1..nts |-> blocks[b].entries]),
              params |-> ApplyWrites(Zeros(n),
                            Flatten([b \in 1..nts |->
                                [w \in 1..Len(blocks[b].writes) |->
                                    <<slice(b - 1).start + blocks[b].writes[w][1],
                                      blocks[b].writes[w][2]>>]]))]

---------------------------------------------------------------------------
(* Iteration controller: sim/src/solver.rs *)

\* Vectors of length n over the naturals whose entries sum to at most w
RECURSIVE VecsUpTo(_, _)
VecsUpTo(n, w) ==
    IF n = 0 THEN {<<>>}
    ELSE UNION {{<<x>> \o t : t \in VecsUpTo(n - 1, w - x)} : x \in 0..w}

\* The arguments of a step() call: dt and the SolverConfig fields that
\* nr_step reads (n_timesteps is the variable of that name).
\* In Linear mode the Newton-Raphson fields are not read: one value each.
\* adaptive_step_size is the field the settings panel edits (app.rs:212);
\* SolverConfig does not declare it and nr_step does not read it.  The
\* configurations explored with it set have tolerance 0 (no round converges).
Cfgs ==
    [dt : {1},
     mode : {"NewtonRaphson"},
     max_nr_iters : 0..MaxIters,
     nr_step_size : {1},
     adaptive_step_size : {FALSE},
     nr_tolerance : {1, 2}]
    \cup
    [dt : {1},
     mode : {"NewtonRaphson"},
     max_nr_iters : {MaxIters},
     nr_step_size : {1},
     adaptive_step_size : {TRUE},
     nr_tolerance : {0}]
    \cup
    [dt : {1},
     mode : {"Linear"},
     max_nr_iters : {MaxIters},
     nr_step_size : {1},
     adaptive_step_size : {FALSE},
     nr_tolerance : {1}]

NoCfg == [dt |-> 0, mode |-> "none", max_nr_iters |-> 0, nr_step_size |-> 0,
          adaptive_step_size |-> FALSE, nr_tolerance |-> 0]

\* let mut last_err = 9e99 (a stand-in larger than every err of the model)
LastErrInit == 1000000

\* Solver::new: the solution buffer
new_soln_vector(m, nts) == Zeros(vector_size(m) * nts)

\* prev_time_step_soln without the slicing: the whole buffer, as the disabled
\* body of linear_step takes it
prev_time_step_soln_whole(soln, m, nts) == soln

\* nr_step, line 80: &self.soln_vector[n_timesteps.saturating_sub(1) * vector_size..]
\* (the start is never beyond the length while the buffer has its length)
prev_time_step_soln(soln, m, nts) ==
    LET start == SatSub(nts, 1) * vector_size(m)
    IN  SubSeq(soln, start + 1, Len(soln))

\* nr_initial_state without cycle().take(total_vect_len): the last block alone
nr_initial_state_no_cycle(soln, m, nts) == prev_time_step_soln(soln, m, nts)

\* nr_step, line 83: prev.iter().cycle().take(total_vect_len).collect()
nr_initial_state(soln, m, nts) ==
    LET total_vect_len == nts * vector_size(m)
        prev == prev_time_step_soln(soln, m, nts)
    IN  IF Len(prev) = 0 THEN <<>>
        ELSE [i \in 1..total_vect_len |-> prev[((i - 1) % Len(prev)) + 1]]

\* nr_step, lines 95-105: f = b - A * new_state, as a dense vector
residual(matrix, params, x) ==
    LET row(r) == {e \in 1..Len(matrix) : matrix[e][1] = r}
        RECURSIVE dot(_)
        dot(es) == IF es = {} THEN 0
                   ELSE LET e == CHOOSE e \in es : TRUE
                        IN  matrix[e][3] * At(x, matrix[e][2]) + dot(es \ {e})
    IN  [i \in 1..Len(params) |-> params[i] - dot(row(i - 1))]

\* LinearSolver::solve(a, b, tolerance): the three backends (rsparse lusol,
\* bicg, the gmres crate) overwrite b with a vector of the same length or
\* return an error.  The outcomes are those of any backend; the values are
\* bounded so that the candidate's weight stays within budget, and they are
\* zero beyond the first MaxSupport entries.
linear_solve(matrix, b, budget) ==
    LET k == IF Len(b) < MaxSupport THEN Len(b) ELSE MaxSupport
    IN  {[ok |-> FALSE, x |-> <<>>]} \cup
        {[ok |-> TRUE, x |-> y \o Zeros(Len(b) - k)] : y \in VecsUpTo(k, budget)}

\* nr_step, line 112: delta.iter().map(|f| f*f).sum()
err_of(delta) == SumSeq([i \in 1..Len(delta) |-> delta[i] * delta[i]])

\* nr_step, line 120: new_state[i] += delta[i] * nr_step_size, zipped
nr_update(x, delta, step_size) ==
    [i \in 1..Len(x) |-> IF i <= Len(delta) THEN x[i] + delta[i] * step_size ELSE x[i]]

\* nr_round_control that goes on with the loop after a failed solve
nr_round_control_retry(solve_ok, e, c) ==
    IF solve_ok /\ e < c.nr_tolerance THEN "break" ELSE "continue"

\* nr_step, lines 109 and 122: what a round does after its solve: `?` returns
\* the error, err < nr_tolerance breaks, otherwise the loop goes on
nr_round_control(solve_ok, e, c) ==
    IF ~solve_ok THEN "solve_err"
    ELSE IF e < c.nr_tolerance THEN "break"
    ELSE "continue"

\* nr_loop_continues of a loop that tests its bound after the first round
nr_loop_continues_do_while(done, c) == done = 0 \/ done < c.max_nr_iters

\* nr_loop_continues with the range 0..=max_nr_iters
nr_loop_continues_inclusive(done, c) == done <= c.max_nr_iters

\* nr_step: whether the for loop has rounds left after `done` rounds
nr_loop_continues(done, c) == done < c.max_nr_iters

\* nr_return that stores the candidate before returning a solve error
nr_return_keep_candidate(how, soln, candidate) ==
    CASE how = "empty"     -> [result |-> "ok",  soln_vector |-> soln]
      [] how = "solve_err" -> [result |-> "err", soln_vector |-> candidate]
      [] how = "panic"     -> [result |-> "panic", soln_vector |-> soln]
      [] how = "break"     -> [result |-> "ok",  soln_vector |-> candidate]
      [] how = "exhausted" -> [result |-> "ok",  soln_vector |-> candidate]

\* nr_return that reports the exhaustion of the loop as an error
nr_return_strict(how, soln, candidate) ==
    CASE how = "empty"     -> [result |-> "ok",  soln_vector |-> soln]
      [] how = "solve_err" -> [result |-> "err", soln_vector |-> soln]
      [] how = "panic"     -> [result |-> "panic", soln_vector |-> soln]
      [] how = "break"     -> [result |-> "ok",  soln_vector |-> candidate]
      [] how = "exhausted" -> [result |-> "err", soln_vector |-> soln]

\* nr_step: the value returned and the buffer left, by the way the call ends
nr_return(how, soln, candidate) ==
    CASE how = "empty"     -> [result |-> "ok",  soln_vector |-> soln]
      [] how = "solve_err" -> [result |-> "err", soln_vector |-> soln]
      [] how = "panic"     -> [result |-> "panic", soln_vector |-> soln]
      [] how = "break"     -> [result |-> "ok",  soln_vector |-> candidate]
      [] how = "exhausted" -> [result |-> "ok",  soln_vector |-> candidate]

\* linear_step, lines 63-76: the body is commented out; it returns Ok(())
linear_step(soln) ==
    [result |-> "ok", soln_vector |-> soln, stamps |-> 0, solves |-> 0]

\* Solver::state, lines 142-178.  Indexing soln_vector[offset..] out of range
\* panics.  slots records which index of soln_vector[offset..] each current
\* was read from.
state(m, soln, d, time_step_idx) ==
    LET offset == time_step_idx * vector_size(m)
        avail == Len(soln) - offset
        vr == voltages(m.state_map)
        n2 == Len(d.two_terminal)
        n3 == Len(d.three_terminal)
        rd(i) == At(soln, offset + i)
        two_slots == [k \in 1..n2 |-> k - 1]
        three_slots == [j \in 1..n3 |-> <<n2 + 2 * (j - 1), n2 + 2 * (j - 1) + 1>>]
    IN  IF \/ avail < 0
           \/ vr.end > avail
           \/ \E k \in 1..n2 : two_slots[k] >= avail
           \/ \E j \in 1..n3 : three_slots[j][2] >= avail
        THEN [panic |-> TRUE]
        ELSE [panic |-> FALSE,
              time_step_idx |-> time_step_idx,
              voltages |-> [i \in 1..RangeLen(vr) |-> rd(vr.start + i - 1)] \o <<0>>,
              two_terminal_current |-> [k \in 1..n2 |-> rd(two_slots[k])],
              three_terminal_current |->
                  [j \in 1..n3 |->
                      LET ab_current == rd(three_slots[j][1])
                          bc_current == rd(three_slots[j][2])
                      IN  <<ab_current, bc_current - ab_current, bc_current>>],
              two_slots |-> two_slots,
              three_slots |-> three_slots]

NoOutputs == [panic |-> FALSE, time_step_idx |-> None]

---------------------------------------------------------------------------
(* The editor's diagram: src/circuit_widget.rs *)

\* CellPos, (i32, i32): the cells explored are those of one row of the grid
Cells == {<<x, 0>> : x \in 0..(MaxCells - 1)}

\* The components of the diagrams explored, by place in their list: each
\* place has a kind of its own
EditorTwoTerminal(k) == Window(1, k)

EditorThreeTerminal(k) ==
    [j \in 1..k |-> IF j % 2 = 1 THEN [kind |-> "PTransistor", val |-> 7]
                    ELSE [kind |-> "NTransistor", val |-> 7]]

\* Diagram { two_terminal, three_terminal } with the given terminal positions
Diagram(two_pos, three_pos) ==
    [two_terminal |-> [i \in 1..Len(two_pos) |->
                          [positions |-> two_pos[i],
                           comp |-> EditorTwoTerminal(Len(two_pos))[i]]],
     three_terminal |-> [j \in 1..Len(three_pos) |->
                          [positions |-> three_pos[j],
                           comp |-> EditorThreeTerminal(Len(three_pos))[j]]]]

\* The terminal positions of n two-terminal and of n three-terminal components
TwoPositions(n) == [1..n -> Cells \X Cells]

ThreePositions(n) == [1..n -> Cells \X Cells \X Cells]

\* to_primitive_diagram, lines 101-104 and 110-113 without the contains_key
\* test: the position is inserted whether or not it is a key already
insert_position_overwrite(all_positions, pos) ==
    [q \in (DOMAIN all_positions) \cup {pos} |->
        IF q = pos THEN Cardinality(DOMAIN all_positions) ELSE all_positions[q]]

\* to_primitive_diagram, lines 101-104 and 110-113: idx = all_positions.len();
\* if the position is not a key of the map, insert it with idx
insert_position(all_positions, pos) ==
    IF pos \in DOMAIN all_positions THEN all_positions
    ELSE [q \in (DOMAIN all_positions) \cup {pos} |->
             IF q = pos THEN Cardinality(DOMAIN all_positions) ELSE all_positions[q]]

RECURSIVE insert_positions(_, _)
insert_positions(all_positions, ps) ==
    IF Len(ps) = 0 THEN all_positions
    ELSE insert_positions(insert_position(all_positions, Head(ps)), Tail(ps))

\* Diagram::to_primitive_diagram
to_primitive_diagram(dg) ==
    LET two == dg.two_terminal
        three == dg.three_terminal
        all_positions ==
            insert_positions(<<>>,
                Flatten([i \in 1..Len(two) |-> two[i].positions]) \o
                Flatten([j \in 1..Len(three) |-> three[j].positions]))
    IN  [num_nodes |-> Cardinality(DOMAIN all_positions),
         two_terminal |-> [i \in 1..Len(two) |->
                              [nodes |-> [t \in 1..2 |-> all_positions[two[i].positions[t]]],
                               comp |-> two[i].comp]],
         three_terminal |-> [j \in 1..Len(three) |->
                              [nodes |-> [t \in 1..3 |-> all_positions[three[j].positions[t]]],
                               comp |-> three[j].comp]]]

NoEditor == [two_terminal |-> <<>>, three_terminal |-> <<>>, converted |-> FALSE]

---------------------------------------------------------------------------
(* The biconjugate-gradient backend: sim/src/solver.rs, bicg *)

\* The floating point values of bicg are abstracted to classes.  A system
\* (matrix and right-hand side) is all finite, or holds a NaN, or holds an
\* infinity and no NaN.  The residual norm res = r.r is NaN, infinite, finite
\* and below the tolerance, or finite and not below it.
NumericClasses == {"finite", "nan", "inf"}

\* for _ in 0..100
BicgCap == 100

NoBicg == [pc |-> "idle", numeric |-> "finite", k |-> 0, res |-> "none",
           out |-> "none", how |-> "none"]

\* bicg, line 242: r = b - a * x with every entry of x equal to 1e-12.  A NaN
\* of a or b is a NaN of r; an infinity is an infinity of r, or a NaN when
\* two infinities cancel.
bicg_first_residual(numeric) ==
    CASE numeric = "nan"    -> {"nan"}
      [] numeric = "inf"    -> {"inf", "nan"}
      [] numeric = "finite" -> {"above", "below"}

\* bicg, lines 250-253 and 265-276: one update of x, r and p.  With an
\* infinite r, rr and pap are infinite or NaN, so alpha and the next r are
\* NaN.  With a finite r the next r is finite, or infinite or NaN when pap is
\* zero (alpha = rr / 0).
bicg_next_residual(res) ==
    CASE res = "inf"   -> {"nan"}
      [] res = "above" -> {"above", "below", "inf", "nan"}

\* bicg, lines 256-263: the two tests made on res in every round
bicg_check(res) ==
    IF res = "nan" THEN "panic"
    ELSE IF res = "below" THEN "break"
    ELSE "continue"

\* bicg, lines 279-281: after the loop, however it ended, x is copied out
\* and Ok(()) is returned
bicg_return(how) == "ok"

---------------------------------------------------------------------------
(* The application: the frame loop of src/app.rs and the DiagramEditor of  *)
(* src/circuit_widget.rs.  The Solver is seen through the calls the frame  *)
(* makes: it records the topology it was built from and a buffer value.    *)

\* Option<(usize, bool)>: the index and whether it is in three_terminal
NoSelection == <<None, FALSE>>

\* egui_to_cellpos(view_rect.center()), the cell new components are put on
ViewCell == <<0, 0>>

\* Vec::remove(idx) for an index in range
RemoveAt(v, idx) == [i \in 1..(Len(v) - 1) |-> IF i <= idx THEN v[i] ELSE v[i + 1]]

\* DiagramEditor::delete: selected.take(), then Vec::remove(idx), which
\* panics when idx is out of range
delete(ed) ==
    IF ed.selected = NoSelection THEN ed
    ELSE LET idx == ed.selected[1]
         IN  IF ed.selected[2]
             THEN IF InBounds(ed.three, idx)
                  THEN [ed EXCEPT !.three = RemoveAt(@, idx), !.selected = NoSelection]
                  ELSE [ed EXCEPT !.selected = NoSelection, !.panic = TRUE]
             ELSE IF InBounds(ed.two, idx)
                  THEN [ed EXCEPT !.two = RemoveAt(@, idx), !.selected = NoSelection]
                  ELSE [ed EXCEPT !.selected = NoSelection, !.panic = TRUE]

\* DiagramEditor::new_threeterminal
new_threeterminal(ed, pos) ==
    [ed EXCEPT !.selected = <<Len(ed.two), TRUE>>,
               !.three = Append(@, << pos, <<pos[1] + 1, pos[2] + 1>>,
                                      <<pos[1] + 1, pos[2]>> >>)]

\* DiagramEditor::new_twoterminal
new_twoterminal(ed, pos) ==
    [ed EXCEPT !.selected = <<Len(ed.two), FALSE>>,
               !.two = Append(@, << pos, <<pos[1] + 1, pos[2]>> >>)]

\* DiagramEditor::reset_selection
reset_selection(ed) == [ed EXCEPT !.selected = NoSelection]

\* The topology of the editor's diagram as a Solver sees it:
\* num_nodes and the two component counts of to_primitive_diagram()
Topology(ed) ==
    LET d == to_primitive_diagram(Diagram(ed.two, ed.three))
    IN  <<d.num_nodes, Len(d.two_terminal), Len(d.three_terminal)>>

\* The pointer events of one frame: at most one widget is clicked, or one
\* drag of the end handle of the selected component stops on a cell
NoClick == [kind |-> "none", idx |-> None, three |-> FALSE, cell |-> ViewCell]

DragCells == {<<0, 0>>, <<1, 0>>}

\* The component lists of the files the File menu can load
NewFile == [two |-> <<>>, three |-> <<>>]

ExampleFile == [two |-> << <<ViewCell, <<1, 0>>>>, <<<<1, 0>>, ViewCell>> >>,
                three |-> <<>>]

TransistorFile == [two |-> <<>>, three |-> << <<ViewCell, <<1, 1>>, <<1, 0>>>> >>]

Files == {NewFile, ExampleFile, TransistorFile}

Clicks(a) ==
    {NoClick}
    \cup {[NoClick EXCEPT !.kind = k] :
            k \in {"New", "Example", "PauseRun", "Reset", "Background"}}
    \cup {[NoClick EXCEPT !.kind = "Open", !.idx = f] : f \in 1..3}
    \cup {[NoClick EXCEPT !.kind = "SingleStep"] : x \in {1} \cap {IF a.paused THEN 1 ELSE 0}}
    \cup {[NoClick EXCEPT !.kind = "Flip"] :
            x \in {1} \cap {IF /\ a.sim.built
                               /\ ~a.ed.selected[2]
                               /\ InBounds(a.ed.two, a.ed.selected[1]) THEN 1 ELSE 0}}
    \cup {[NoClick EXCEPT !.kind = "DeleteButton"] :
            x \in {1} \cap {IF a.sim.built /\ a.ed.selected # NoSelection THEN 1 ELSE 0}}
    \cup {[NoClick EXCEPT !.kind = k] :
            k \in {kk \in {"AddTwo", "AddThree"} :
                     Len(a.ed.two) + Len(a.ed.three) < MaxAppComponents}}
    \cup {[NoClick EXCEPT !.kind = "Body", !.idx = i, !.three = FALSE] :
            i \in {j \in 0..(Len(a.ed.two) - 1) : a.sim.built}}
    \cup {[NoClick EXCEPT !.kind = "Body", !.idx = i, !.three = TRUE] :
            i \in {j \in 0..(Len(a.ed.three) - 1) : a.sim.built}}
    \cup {[NoClick EXCEPT !.kind = "DragStop", !.cell = c] :
            c \in {cc \in DragCells :
                     /\ a.sim.built
                     /\ a.ed.selected # NoSelection
                     /\ IF a.ed.selected[2] THEN InBounds(a.ed.three, a.ed.selected[1])
                        ELSE InBounds(a.ed.two, a.ed.selected[1])}}

Keys == {"none", "Delete", "Escape"}

\* The file a click of the File menu loads
OpenedFile(click) ==
    CASE click.kind = "New"     -> NewFile
      [] click.kind = "Example" -> ExampleFile
      [] click.kind = "Open"    ->
            IF click.idx = 1 THEN NewFile
            ELSE IF click.idx = 2 THEN ExampleFile ELSE TransistorFile

\* The Solver
NoSim == [built |-> FALSE, topology |-> <<0, 0, 0>>, buffer |-> "none"]

\* Solver::new(&diagram.to_primitive_diagram())
SolverNewFor(ed) == [built |-> TRUE, topology |-> Topology(ed), buffer |-> "zero"]

\* What one step() call can return: Ok with a buffer it has written, or
\* an error
StepOutcomes == {[result |-> "ok", buffer |-> "stepped"],
                 [result |-> "err", buffer |-> "none"]}

NoError == "none"

\* What the last frame did: whether it called state() and step(), whether
\* the Solver of each call was built from the topology passed to the call,
\* whether it rebuilt the Solver, and the values of single_step and of
\* save.paused that line 412 read
NoFrame == [state_called |-> FALSE, state_matched |-> TRUE, rebuilt |-> FALSE,
            single_step |-> FALSE, paused |-> FALSE, steps |-> 0,
            step_matched |-> TRUE, step_result |-> "none"]

\* update, File menu: New, Open and Load Example replace current_file and
\* drop the Solver; the editor's selection stays
file_menu(a, click) ==
    IF click.kind \in {"New", "Open", "Example"}
    THEN [a EXCEPT !.ed.two = OpenedFile(click).two,
                   !.ed.three = OpenedFile(click).three,
                   !.sim = NoSim]
    ELSE a

\* DiagramEditor::edit_component: Flip swaps the terminals of the selected
\* two-terminal component, Delete calls delete; both return true
edit_component(ed, click) ==
    IF ed.selected = NoSelection THEN [ed |-> ed, ret |-> FALSE]
    ELSE IF /\ click.kind = "Flip"
            /\ ~ed.selected[2]
            /\ InBounds(ed.two, ed.selected[1])
         THEN [ed |-> [ed EXCEPT !.two[ed.selected[1] + 1] = <<@[2], @[1]>>],
               ret |-> TRUE]
         ELSE IF click.kind = "DeleteButton"
              THEN [ed |-> delete(ed), ret |-> TRUE]
              ELSE [ed |-> ed, ret |-> FALSE]

\* update, "Add component" buttons that leave rebuild_sim as it is
add_component_no_rebuild(ed, click) ==
    CASE click.kind = "AddTwo"   -> [ed |-> new_twoterminal(ed, ViewCell), ret |-> FALSE]
      [] click.kind = "AddThree" -> [ed |-> new_threeterminal(ed, ViewCell), ret |-> FALSE]
      [] OTHER                   -> [ed |-> ed, ret |-> FALSE]

\* update, "Add component" buttons: rebuild_sim = true and new_twoterminal
\* or new_threeterminal at the view's centre
add_component(ed, click) ==
    CASE click.kind = "AddTwo"   -> [ed |-> new_twoterminal(ed, ViewCell), ret |-> TRUE]
      [] click.kind = "AddThree" -> [ed |-> new_threeterminal(ed, ViewCell), ret |-> TRUE]
      [] OTHER                   -> [ed |-> ed, ret |-> FALSE]

\* DiagramEditor::edit: a click on a body selects it; a drag of the selected
\* component that stops moves its terminals and returns true.  The second
\* pair of loops runs over the components zipped with the state lists, of
\* n_two and n_three entries.
edit(ed, click, n_two, n_three) ==
    LET idx == ed.selected[1]
        dragged ==
            IF click.kind # "DragStop" \/ ed.selected = NoSelection THEN [ed |-> ed, ret |-> FALSE]
            ELSE IF ed.selected[2]
                 THEN IF InBounds(ed.three, idx) /\ idx < n_three
                      THEN [ed |-> [ed EXCEPT !.three[idx + 1] = <<@[1], @[2], click.cell>>],
                            ret |-> TRUE]
                      ELSE [ed |-> ed, ret |-> FALSE]
                 ELSE IF InBounds(ed.two, idx) /\ idx < n_two
                      THEN [ed |-> [ed EXCEPT !.two[idx + 1] = <<@[1], click.cell>>],
                            ret |-> TRUE]
                      ELSE [ed |-> ed, ret |-> FALSE]
        in_list == IF click.three THEN InBounds(ed.three, click.idx)
                   ELSE InBounds(ed.two, click.idx)
    IN  IF click.kind = "Body" /\ in_list
        THEN [ed |-> [dragged.ed EXCEPT !.selected = <<click.idx, click.three>>],
              ret |-> dragged.ret]
        ELSE dragged

\* update, line 412 without the pause test
steps_this_frame_always(paused, rebuild_sim, single_step) == TRUE

\* update, line 412: !self.save.paused || rebuild_sim || single_step
steps_this_frame(paused, rebuild_sim, single_step) ==
    ~paused \/ rebuild_sim \/ single_step

\* update, lines 416-427, with an error that is stored and does not pause
on_step_result_keep_running(a, out) ==
    IF out.result = "err"
    THEN [a EXCEPT !.error = "step failed"]
    ELSE [a EXCEPT !.error = NoError, !.sim.buffer = out.buffer]

\* update, lines 416-427: an error of step() is stored and pauses the
\* simulation, a success clears the stored error
on_step_result(a, out) ==
    IF out.result = "err"
    THEN [a EXCEPT !.error = "step failed", !.paused = TRUE]
    ELSE [a EXCEPT !.error = NoError, !.sim.buffer = out.buffer]

\* eframe::App::update for one frame with the given pointer event, key and
\* outcome of step()
update(a, click, key, out) ==
    LET a1 == file_menu(a, click)
        rebuild0 == ~a1.sim.built
        state_some == a1.sim.built
        n_two == Len(a1.ed.two)
        n_three == Len(a1.ed.three)
        state_matched == state_some => a1.sim.topology = Topology(a1.ed)
        paused1 == IF click.kind = "PauseRun" THEN ~a1.paused ELSE a1.paused
        single_step == paused1 /\ click.kind = "SingleStep"
        rebuild1 == rebuild0 \/ click.kind = "Reset"
        ec == IF state_some THEN edit_component(a1.ed, click)
              ELSE [ed |-> a1.ed, ret |-> FALSE]
        ac == add_component(ec.ed, click)
        ee == IF state_some THEN edit(ac.ed, click, n_two, n_three)
              ELSE [ed |-> ac.ed, ret |-> FALSE]
        ed5 == IF key = "Delete" THEN delete(ee.ed) ELSE ee.ed
        rebuild5 == rebuild1 \/ ec.ret \/ ac.ret \/ ee.ret \/ key = "Delete"
        ed6 == IF click.kind = "Background" \/ key = "Escape"
               THEN reset_selection(ed5) ELSE ed5
        sim7 == IF rebuild5 THEN SolverNewFor(ed6) ELSE a1.sim
        a7 == [a1 EXCEPT !.ed = ed6, !.sim = sim7, !.paused = paused1]
        stepping == steps_this_frame(paused1, rebuild5, single_step) /\ sim7.built
        a8 == IF stepping THEN on_step_result(a7, out) ELSE a7
    IN  IF ec.ed.panic \/ ed5.panic
        THEN [a1 EXCEPT !.ed = IF ec.ed.panic THEN ec.ed ELSE ed5,
                        !.paused = paused1,
                        !.crashed = TRUE,
                        !.frame = [NoFrame EXCEPT !.state_called = state_some,
                                                  !.state_matched = state_matched]]
        ELSE [a8 EXCEPT !.frame =
                 [state_called |-> state_some,
                  state_matched |-> state_matched,
                  rebuilt |-> rebuild5,
                  single_step |-> single_step,
                  paused |-> paused1,
                  steps |-> IF stepping THEN 1 ELSE 0,
                  step_matched |-> stepping => sim7.topology = Topology(ed6),
                  step_result |-> IF stepping THEN out.result ELSE "none"]]

NoApp == [ed |-> [two |-> <<>>, three |-> <<>>, selected |-> NoSelection,
                  panic |-> FALSE],
          sim |-> NoSim, error |-> NoError, paused |-> FALSE, crashed |-> FALSE,
          frame |-> NoFrame]

---------------------------------------------------------------------------
(* The state machine *)

Init ==
    /\ diagram \in Diagrams
    /\ n_timesteps = 0
    /\ map = MappingNew(PrimitiveDiagram(0, <<>>, <<>>))
    /\ soln_vector = <<>>
    /\ pc = "unbuilt"
    /\ cfg = NoCfg
    /\ new_state = <<>>
    /\ iter = 0
    /\ last_err = LastErrInit
    /\ err = None
    /\ result = "none"
    /\ stamps = 0
    /\ solves = 0
    /\ failed = 0
    /\ exit = "none"
    /\ outputs = NoOutputs
    /\ bicg = NoBicg
    /\ editor = NoEditor
    /\ app = NoApp

\* Solver::new(diagram, n_timesteps)
SolverNew ==
    /\ pc = "unbuilt"
    /\ \E nts \in 1..MaxTimesteps :
          /\ n_timesteps' = nts
          /\ map' = MappingNew(diagram)
          /\ soln_vector' = new_soln_vector(MappingNew(diagram), nts)
    /\ pc' = "idle"
    /\ UNCHANGED <<diagram, cfg, new_state, iter, last_err, err, result, stamps,
                   solves, failed, exit, outputs, bicg, editor, app>>

\* step() with cfg.mode = Linear
StepLinear ==
    /\ pc = "idle"
    /\ \E c \in Cfgs :
          /\ c.mode = "Linear"
          /\ cfg' = c
    /\ LET r == linear_step(soln_vector)
       IN  /\ result' = r.result
           /\ soln_vector' = r.soln_vector
           /\ stamps' = r.stamps
           /\ solves' = r.solves
    /\ failed' = 0
    /\ exit' = "linear"
    /\ new_state' = <<>>
    /\ iter' = 0
    /\ last_err' = LastErrInit
    /\ err' = None
    /\ outputs' = NoOutputs
    /\ UNCHANGED <<diagram, n_timesteps, map, pc, bicg, editor, app>>

\* The end of nr_step by way `how` with candidate `cand`: the candidate is
\* moved into the buffer or dropped
NrLeave(how, cand) ==
    LET r == nr_return(how, soln_vector, cand)
    IN  /\ result' = r.result
        /\ new_state' = IF how \in {"break", "exhausted"} THEN cand ELSE <<>>
        /\ soln_vector' = r.soln_vector
        /\ exit' = how
        /\ last_err' = LastErrInit
        /\ pc' = IF how = "panic" THEN "panicked" ELSE "idle"

\* step() with cfg.mode = NewtonRaphson: nr_step up to its loop
NrStart ==
    /\ pc = "idle"
    /\ \E c \in Cfgs :
          /\ c.mode = "NewtonRaphson"
          /\ cfg' = c
          /\ LET cand == nr_initial_state(soln_vector, map, n_timesteps)
             IN  IF nr_loop_continues(0, c)
                    THEN /\ pc' = "nr_loop"
                         /\ new_state' = cand
                         /\ result' = "none"
                         /\ exit' = "none"
                         /\ UNCHANGED soln_vector
                         /\ last_err' = LastErrInit
                    ELSE NrLeave("exhausted", cand)
    /\ iter' = 0
    /\ err' = None
    /\ stamps' = 0
    /\ solves' = 0
    /\ failed' = 0
    /\ outputs' = NoOutputs
    /\ UNCHANGED <<diagram, n_timesteps, map, bicg, editor, app>>

\* One round of the loop of nr_step: stamp, solve, update, and the return
\* when the round is the last one
NrRound ==
    /\ pc = "nr_loop"
    /\ LET st == stamp(cfg.dt, map, diagram, new_state,
                       prev_time_step_soln(soln_vector, map, n_timesteps), n_timesteps)
       IN  /\ stamps' = stamps + 1
           /\ iter' = iter + 1
           /\ IF st.panic
              THEN /\ NrLeave("panic", new_state)
                   /\ UNCHANGED <<solves, failed, err>>
              ELSE IF Len(st.params) = 0
              THEN /\ NrLeave("empty", new_state)
                   /\ UNCHANGED <<solves, failed, err>>
              ELSE \E out \in linear_solve(st.matrix,
                                           residual(st.matrix, st.params, new_state),
                                           (MaxWeight - SumSeq(new_state)) \div cfg.nr_step_size) :
                      LET e == IF out.ok THEN err_of(out.x) ELSE 0
                          ctl == nr_round_control(out.ok, e, cfg)
                          cand == IF out.ok
                                  THEN nr_update(new_state, out.x, cfg.nr_step_size)
                                  ELSE new_state
                      IN  /\ solves' = solves + 1
                          /\ err' = IF out.ok THEN e ELSE err
                          /\ failed' = IF out.ok THEN failed ELSE failed + 1
                          /\ CASE ctl = "solve_err" -> NrLeave("solve_err", cand)
                               [] ctl = "break" -> NrLeave("break", cand)
                               [] ctl = "continue" ->
                                    IF nr_loop_continues(iter + 1, cfg)
                                    THEN /\ last_err' = e
                                         /\ new_state' = cand
                                         /\ UNCHANGED <<pc, result, exit, soln_vector>>
                                    ELSE NrLeave("exhausted", cand)
    /\ UNCHANGED <<diagram, n_timesteps, map, cfg, outputs, bicg, editor, app>>

\* Solver::state(diagram, time_step_idx)
State ==
    /\ pc = "idle"
    /\ \E t \in 0..(n_timesteps - 1) :
          LET o == state(map, soln_vector, diagram, t)
          IN  /\ outputs' = o
              /\ pc' = IF o.panic THEN "panicked" ELSE "idle"
    /\ UNCHANGED <<diagram, n_timesteps, map, soln_vector, cfg, new_state, iter,
                   last_err, err, result, stamps, solves, failed, exit, bicg, editor, app>>

Next == SolverNew \/ StepLinear \/ NrStart \/ NrRound \/ State

Spec == Init /\ [][Next]_vars

---------------------------------------------------------------------------
(* The call of bicg as a state machine *)

\* bicg(a, b, tolerance) up to its loop
BicgEnter ==
    /\ bicg.pc = "called"
    /\ \E r \in bicg_first_residual(bicg.numeric) :
          bicg' = [bicg EXCEPT !.pc = "loop", !.res = r]
    /\ UNCHANGED <<diagram, n_timesteps, map, soln_vector, pc, cfg, new_state, iter,
                   last_err, err, result, stamps, solves, failed, exit, outputs, editor, app>>

\* One round of the loop of bicg
BicgRound ==
    /\ bicg.pc = "loop"
    /\ bicg.k < BicgCap
    /\ LET c == bicg_check(bicg.res)
       IN  CASE c = "panic" ->
                  bicg' = [bicg EXCEPT !.pc = "done", !.k = @ + 1,
                                       !.out = "panic", !.how = "panic"]
             [] c = "break" ->
                  bicg' = [bicg EXCEPT !.pc = "done", !.k = @ + 1,
                                       !.out = bicg_return("break"), !.how = "break"]
             [] c = "continue" ->
                  \E r \in bicg_next_residual(bicg.res) :
                      bicg' = [bicg EXCEPT !.k = @ + 1, !.res = r]
    /\ UNCHANGED <<diagram, n_timesteps, map, soln_vector, pc, cfg, new_state, iter,
                   last_err, err, result, stamps, solves, failed, exit, outputs, editor, app>>

\* The loop of bicg has made its 100 rounds
BicgExhausted ==
    /\ bicg.pc = "loop"
    /\ bicg.k = BicgCap
    /\ bicg' = [bicg EXCEPT !.pc = "done", !.out = bicg_return("exhausted"),
                            !.how = "exhausted"]
    /\ UNCHANGED <<diagram, n_timesteps, map, soln_vector, pc, cfg, new_state, iter,
                   last_err, err, result, stamps, solves, failed, exit, outputs, editor, app>>

\* A call of bicg on a system of any numeric class, outside any Solver
InitBicg ==
    /\ diagram = PrimitiveDiagram(0, <<>>, <<>>)
    /\ n_timesteps = 0
    /\ map = MappingNew(PrimitiveDiagram(0, <<>>, <<>>))
    /\ soln_vector = <<>>
    /\ pc = "unbuilt"
    /\ cfg = NoCfg
    /\ new_state = <<>>
    /\ iter = 0
    /\ last_err = LastErrInit
    /\ err = None
    /\ result = "none"
    /\ stamps = 0
    /\ solves = 0
    /\ failed = 0
    /\ exit = "none"
    /\ outputs = NoOutputs
    /\ editor = NoEditor
    /\ app = NoApp
    /\ bicg \in {[NoBicg EXCEPT !.pc = "called", !.numeric = c] : c \in NumericClasses}

NextBicg == BicgEnter \/ BicgRound \/ BicgExhausted

SpecBicg == InitBicg /\ [][NextBicg]_vars

---------------------------------------------------------------------------
(* The conversion of the editor's diagram as a state machine *)

\* diagram.to_primitive_diagram(), as app.rs calls it before Solver::new
ToPrimitiveDiagram ==
    /\ ~editor.converted
    /\ diagram' = to_primitive_diagram(editor)
    /\ editor' = [editor EXCEPT !.converted = TRUE]
    /\ UNCHANGED <<n_timesteps, map, soln_vector, pc, cfg, new_state, iter,
                   last_err, err, result, stamps, solves, failed, exit, outputs, bicg, app>>

InitEditor ==
    /\ diagram = PrimitiveDiagram(0, <<>>, <<>>)
    /\ n_timesteps = 0
    /\ map = MappingNew(PrimitiveDiagram(0, <<>>, <<>>))
    /\ soln_vector = <<>>
    /\ pc = "unbuilt"
    /\ cfg = NoCfg
    /\ new_state = <<>>
    /\ iter = 0
    /\ last_err = LastErrInit
    /\ err = None
    /\ result = "none"
    /\ stamps = 0
    /\ solves = 0
    /\ failed = 0
    /\ exit = "none"
    /\ outputs = NoOutputs
    /\ bicg = NoBicg
    /\ app = NoApp
    /\ \E n2 \in 0..MaxEditorComponents :
       \E n3 \in 0..(MaxEditorComponents - n2) :
       \E tp \in TwoPositions(n2) :
       \E hp \in ThreePositions(n3) :
          editor = [two_terminal |-> Diagram(tp, hp).two_terminal,
                    three_terminal |-> Diagram(tp, hp).three_terminal,
                    converted |-> FALSE]

NextEditor == ToPrimitiveDiagram

SpecEditor == InitEditor /\ [][NextEditor]_vars

---------------------------------------------------------------------------
(* The application's frame loop as a state machine *)

\* One call of eframe::App::update
Update ==
    /\ ~app.crashed
    /\ \E click \in Clicks(app) :
       \E key \in Keys :
       \E out \in StepOutcomes :
          app' = update(app, click, key, out)
    /\ UNCHANGED <<diagram, n_timesteps, map, soln_vector, pc, cfg, new_state, iter,
                   last_err, err, result, stamps, solves, failed, exit, outputs,
                   bicg, editor>>

\* CircuitApp::new: the save data is the default or what an earlier run
\* stored; there is no Solver and no error
InitApp ==
    /\ diagram = PrimitiveDiagram(0, <<>>, <<>>)
    /\ n_timesteps = 0
    /\ map = MappingNew(PrimitiveDiagram(0, <<>>, <<>>))
    /\ soln_vector = <<>>
    /\ pc = "unbuilt"
    /\ cfg = NoCfg
    /\ new_state = <<>>
    /\ iter = 0
    /\ last_err = LastErrInit
    /\ err = None
    /\ result = "none"
    /\ stamps = 0
    /\ solves = 0
    /\ failed = 0
    /\ exit = "none"
    /\ outputs = NoOutputs
    /\ bicg = NoBicg
    /\ editor = NoEditor
    /\ \E f \in Files : \E p \in BOOLEAN :
          app = [NoApp EXCEPT !.ed.two = f.two, !.ed.three = f.three, !.paused = p]

NextApp == Update

SpecApp == InitApp /\ [][NextApp]_vars

---------------------------------------------------------------------------
(* Properties *)

\* state() has returned (without panic) since the last step()
HasOutputs == ~outputs.panic /\ outputs.time_step_idx # None

\* C1: for every well-formed topology and n_timesteps >= 1, stamp completes
\* without failure and returns a right-hand side of length
\* vector_size * n_timesteps and a matrix whose row and column indices are
\* all below vector_size * n_timesteps.  (Stated where nr_step calls stamp.)
C1_StampCompletes ==
    (pc = "nr_loop" /\ WellFormed(diagram) /\ n_timesteps >= 1) =>
        LET n == vector_size(map) * n_timesteps
            st == stamp(cfg.dt, map, diagram, new_state,
                        prev_time_step_soln(soln_vector, map, n_timesteps), n_timesteps)
        IN  /\ ~st.panic
            /\ Len(st.params) = n
            /\ \A e \in 1..Len(st.matrix) : st.matrix[e][1] < n /\ st.matrix[e][2] < n

\* C2: the solution buffer has length vector_size * n_timesteps in every
\* state of a Solver, whatever step() calls were made and however they ended,
\* and Solver::new leaves it all zero.
C2_BufferLength ==
    pc # "unbuilt" =>
        /\ Len(soln_vector) = vector_size(map) * n_timesteps
        /\ (pc = "idle" /\ exit = "none") =>
               \A i \in 1..Len(soln_vector) : soln_vector[i] = 0

\* C2 witness: a failing step() made after a step() that changed the buffer
C2_Witness ==
    /\ pc = "idle"
    /\ result = "err"
    /\ SumSeq(soln_vector) > 0

\* C3: the state layout and the equation layout of Mapping::new have the same
\* total length, vector_size, so the debug assertion of vector_size holds.
C3_LayoutsEqual ==
    pc # "unbuilt" =>
        LET sm == map.state_map
            pm == map.param_map
        IN  /\ vector_size_assert(map)
            /\ RangeLen(components(pm)) + RangeLen(current_laws(pm))
                 + RangeLen(voltage_laws(pm)) = vector_size(map)
            /\ RangeLen(currents(sm)) + RangeLen(voltage_drops(sm))
                 + RangeLen(voltages(sm)) = vector_size(map)

\* C3 witness: a mapping built for two two-terminal components, a
\* three-terminal component and two nodes
C3_Witness ==
    /\ pc = "idle"
    /\ Len(diagram.two_terminal) = 2
    /\ Len(diagram.three_terminal) = 1
    /\ diagram.num_nodes = 2

\* C4: with n2 two-terminal and n3 three-terminal components, the currents,
\* voltage_drops, components and voltage_laws ranges have n2 + 2 * n3 slots,
\* so the slots n2 + 2k and n2 + 2k + 1 of a three-terminal component exist.
C4_ThreeTerminalSlots ==
    pc # "unbuilt" =>
        LET sm == map.state_map
            pm == map.param_map
            n2 == Len(diagram.two_terminal)
            n3 == Len(diagram.three_terminal)
        IN  /\ RangeLen(currents(sm)) = n2 + 2 * n3
            /\ RangeLen(voltage_drops(sm)) = n2 + 2 * n3
            /\ \A k \in 0..(n3 - 1) : \A i \in {n2 + 2 * k, n2 + 2 * k + 1} :
                  /\ nth(currents(sm), i) # None
                  /\ nth(voltage_drops(sm), i) # None
                  /\ nth(components(pm), i) # None
                  /\ nth(voltage_laws(pm), i) # None

\* C5: a Newton-Raphson step() whose max_nr_iters rounds all solved and none
\* of which converged returns Ok, and the buffer is the last iterate.
C5_ExhaustedIsOk ==
    exit = "exhausted" =>
        /\ cfg.mode = "NewtonRaphson"
        /\ stamps = cfg.max_nr_iters
        /\ solves = cfg.max_nr_iters
        /\ failed = 0
        /\ pc # "nr_loop"
        /\ result = "ok"
        /\ soln_vector = new_state

\* C5 witness: two rounds, neither converged, and the buffer was changed
C5_Witness ==
    /\ exit = "exhausted"
    /\ cfg.max_nr_iters = 2
    /\ solves = 2
    /\ SumSeq(soln_vector) = 2

\* C6: once a linear solve has returned an error, step() has returned it:
\* the failed solve is the last solve and its round the last stamp of the
\* call, no solve is retried.
C6_SolveErrorReturned ==
    failed >= 1 =>
        /\ failed = 1
        /\ pc # "nr_loop"
        /\ result = "err"
        /\ exit = "solve_err"
        /\ solves = iter
        /\ stamps = iter

\* C6 witness: the solve of the first of two rounds failed
C6_Witness ==
    /\ failed = 1
    /\ solves = 1
    /\ cfg.max_nr_iters = 2
    /\ result = "err"

\* C7: a step() in Linear mode performs exactly one stamp and one solve.
C7_LinearOneStampOneSolve ==
    exit = "linear" => (stamps = 1 /\ solves = 1)

\* C8: state(topology, time_slice).voltages has exactly num_nodes entries:
\* entry i < num_nodes - 1 is the i-th slot of the voltages range of block
\* time_slice, and the last entry, the ground's, is 0.
C8_VoltagePerNode ==
    HasOutputs =>
        LET off == outputs.time_step_idx * vector_size(map)
            vr == voltages(map.state_map)
        IN  /\ Len(outputs.voltages) = diagram.num_nodes
            /\ \A i \in 0..(diagram.num_nodes - 2) :
                  At(outputs.voltages, i) = At(soln_vector, off + vr.start + i)
            /\ At(outputs.voltages, diagram.num_nodes - 1) = 0

\* C9: state() returns one current per two-terminal component, read from its
\* own slot k of the currents range of the block, and one triple
\* [i_ab, i_bc - i_ab, i_bc] per three-terminal component, read from its own
\* two slots of the currents range.
C9_CurrentsFromOwnSlots ==
    /\ ~outputs.panic
    /\ HasOutputs =>
        LET off == outputs.time_step_idx * vector_size(map)
            cur == currents(map.state_map)
            n2 == Len(diagram.two_terminal)
            n3 == Len(diagram.three_terminal)
        IN  /\ Len(outputs.two_terminal_current) = n2
            /\ Len(outputs.three_terminal_current) = n3
            /\ \A k \in 1..n2 :
                  /\ outputs.two_slots[k] = nth(cur, k - 1)
                  /\ outputs.two_terminal_current[k] =
                        At(soln_vector, off + outputs.two_slots[k])
            /\ \A j \in 1..n3 :
                  LET ab == outputs.three_slots[j][1]
                      bc == outputs.three_slots[j][2]
                  IN  /\ ab >= cur.start /\ ab < cur.end
                      /\ bc >= cur.start /\ bc < cur.end
                      /\ ab # bc
                      /\ outputs.three_terminal_current[j] =
                            << At(soln_vector, off + ab),
                               At(soln_vector, off + bc) - At(soln_vector, off + ab),
                               At(soln_vector, off + bc) >>

\* C11: no linear-solver backend panics because of malformed numeric input:
\* with NaN or Inf in the matrix or the right-hand side the call returns
\* (Ok or Err).  (Stated of bicg, the backend whose code is in the
\* repository.)
C11_NoPanicOnNumericInput ==
    bicg.pc = "done" => bicg.out \in {"ok", "err"}

\* C12: bicg returns an error whenever its iteration cap is exhausted without
\* the residual falling below the tolerance; it returns Ok only when the
\* residual has fallen below the tolerance.
C12_BicgErrOnExhaustion ==
    bicg.pc = "done" =>
        /\ (bicg.how = "exhausted" /\ bicg.res # "below") => bicg.out = "err"
        /\ bicg.out = "ok" => bicg.res = "below"

\* The terminals of the editor's diagram with the node index each received:
\* <<position, index>>, two-terminal components first
EditorTerminals ==
    {<<editor.two_terminal[i].positions[t], diagram.two_terminal[i].nodes[t]>> :
        i \in 1..Len(editor.two_terminal), t \in 1..2} \cup
    {<<editor.three_terminal[j].positions[t], diagram.three_terminal[j].nodes[t]>> :
        j \in 1..Len(editor.three_terminal), t \in 1..3}

\* C13: to_primitive_diagram() produces a topology whose node indices are
\* dense and in range: num_nodes is the number of distinct terminal
\* positions, the indices used are exactly 0..num_nodes - 1, two terminals
\* have the same index exactly when they sit at the same position, and the
\* order and the kinds of the components are kept.
C13_DenseNodeIndices ==
    editor.converted =>
        /\ diagram.num_nodes = Cardinality({pi[1] : pi \in EditorTerminals})
        /\ {pi[2] : pi \in EditorTerminals} = 0..(diagram.num_nodes - 1)
        /\ WellFormed(diagram)
        /\ \A p1, p2 \in EditorTerminals : (p1[2] = p2[2]) <=> (p1[1] = p2[1])
        /\ Len(diagram.two_terminal) = Len(editor.two_terminal)
        /\ Len(diagram.three_terminal) = Len(editor.three_terminal)
        /\ \A i \in 1..Len(editor.two_terminal) :
              diagram.two_terminal[i].comp = editor.two_terminal[i].comp
        /\ \A j \in 1..Len(editor.three_terminal) :
              diagram.three_terminal[j].comp = editor.three_terminal[j].comp

\* C13 witness: a converted diagram of a two-terminal and a three-terminal
\* component that share two cells and use three cells in all
C13_Witness ==
    /\ editor.converted
    /\ Len(editor.two_terminal) = 1
    /\ Len(editor.three_terminal) = 1
    /\ diagram.num_nodes = 3
    /\ diagram.two_terminal[1].nodes = <<0, 1>>
    /\ diagram.three_terminal[1].nodes = <<1, 2, 0>>

\* C14: for the voltage divider (Battery(V) in series with R1 and R2 to
\* ground) step() completes without failure, and once it has converged the
\* mid-node voltage is V * R2 / (R1 + R2).
C14_VoltageDivider ==
    (diagram = VoltageDivider /\ pc # "nr_loop" /\ exit # "none") =>
        /\ result = "ok"
        /\ exit = "break" =>
              LET r1 == diagram.two_terminal[1].comp.val
                  r2 == diagram.two_terminal[2].comp.val
                  v == diagram.two_terminal[3].comp.val
                  mid == At(soln_vector, nth(voltages(map.state_map), 1))
              IN  mid * (r1 + r2) = v * r2

\* The coefficient of the matrix built from the triplet list `entries` at
\* row r and column c (to_sprs adds up the entries of a cell)
coefficient(entries, r, c) ==
    SumSeq([i \in 1..Len(entries) |->
               IF entries[i][1] = r /\ entries[i][2] = c THEN entries[i][3] ELSE 0])

\* What stamp_timestep stamps for block k when its params slice has the
\* vector_size entries of a block
block_part(k) ==
    stamp_timestep(vector_size(map), k, cfg.dt, map, diagram, new_state,
                   IF k = 0
                   THEN SomeVec(prev_time_step_soln(soln_vector, map, n_timesteps))
                   ELSE NoneVec,
                   n_timesteps)

\* The coefficient Kirchhoff's current law of node n has on column c in
\* block k: +1 / -1 on the current of a two-terminal component ending /
\* beginning at n, and for a three-terminal component (a, b, c) +1 on i_ab
\* for a, -1 on i_ab and +1 on i_bc for b, -1 on i_bc for c
kcl_coefficient(n, c, k) ==
    LET vs == vector_size(map)
        cur == currents(map.state_map).start
        n2 == Len(diagram.two_terminal)
        ind(b) == IF b THEN 1 ELSE 0
    IN  SumSeq([i \in 1..n2 |->
                   LET nodes == diagram.two_terminal[i].nodes
                   IN  ind(c = k * vs + cur + (i - 1)) * (ind(nodes[2] = n) - ind(nodes[1] = n))])
        + SumSeq([j \in 1..Len(diagram.three_terminal) |->
                   LET nodes == diagram.three_terminal[j].nodes
                       i_ab == k * vs + cur + n2 + 2 * (j - 1)
                   IN  ind(c = i_ab) * (ind(nodes[1] = n) - ind(nodes[2] = n))
                       + ind(c = i_ab + 1) * (ind(nodes[2] = n) - ind(nodes[3] = n))])

\* C15: in every time-step block the current-law row of each non-ground node
\* is stamped as Kirchhoff's current law of that node over the current
\* columns of the same block, with right-hand side 0, and the ground node
\* num_nodes - 1 has no current-law row.
C15_CurrentLawRows ==
    (pc = "nr_loop" /\ WellFormed(diagram)) =>
        LET vs == vector_size(map)
            laws == current_laws(map.param_map)
        IN  /\ RangeLen(laws) = SatSub(diagram.num_nodes, 1)
            /\ \A k \in 0..(n_timesteps - 1) :
                  LET part == block_part(k)
                  IN  /\ ~part.panic
                      /\ \A n \in 0..(diagram.num_nodes - 2) :
                            LET row == k * vs + nth(laws, n)
                            IN  /\ \A w \in 1..Len(part.writes) :
                                      k * vs + part.writes[w][1] # row
                                /\ \A c \in 0..(vs * n_timesteps - 1) :
                                      coefficient(part.entries, row, c)
                                          = kcl_coefficient(n, c, k)

\* The references a capacitor or inductor row of block k >= 1 makes to the
\* block before it, as stamp_timestep stamps them
prev_block_refs(k) ==
    LET n == vector_size(map) * n_timesteps
        offset == n * k
        prev_timestep_offset == SatSub(n, 1) * k
    IN  IF k = 0 THEN {}
        ELSE {Entry(offset + nth(components(map.param_map), i - 1),
                    prev_timestep_offset + nth(voltage_drops(map.state_map), i - 1),
                    0 - diagram.two_terminal[i].comp.val) :
                 i \in {i \in 1..Len(diagram.two_terminal) :
                           diagram.two_terminal[i].comp.kind = "Capacitor"}}
             \cup
             {Entry(offset + nth(components(map.param_map), i - 1),
                    prev_timestep_offset + nth(currents(map.state_map), i - 1),
                    diagram.two_terminal[i].comp.val) :
                 i \in {i \in 1..Len(diagram.two_terminal) :
                           diagram.two_terminal[i].comp.kind = "Inductor"}}

\* C16: block k of a window of n_timesteps blocks occupies the rows and the
\* columns [k * vector_size, (k + 1) * vector_size): every entry stamped for
\* block k has its row there, and its column too unless it is the reference
\* of a capacitor or inductor row to the block before.
C16_BlockOffsets ==
    pc = "nr_loop" =>
        \A k \in 0..(n_timesteps - 1) :
            LET vs == vector_size(map)
                part == block_part(k)
                in_block(x) == k * vs <= x /\ x < (k + 1) * vs
            IN  \A e \in 1..Len(part.entries) :
                    /\ in_block(part.entries[e][1])
                    /\ part.entries[e] \notin prev_block_refs(k) =>
                          in_block(part.entries[e][2])

\* C17: a capacitor row has -dt on its current and C on its voltage drop, an
\* inductor row -L on its current and dt on its voltage drop.  In block 0
\* the right-hand side is C * last_timestep[voltage_drop], respectively
\* -L * last_timestep[current]; in a block k >= 1 it is 0 and the row has -C,
\* respectively +L, on column (k - 1) * vector_size + slot.
C17_StorageRows ==
    pc = "nr_loop" =>
        \A k \in 0..(n_timesteps - 1) :
        \A i \in 1..Len(diagram.two_terminal) :
            LET vs == vector_size(map)
                part == block_part(k)
                comp == diagram.two_terminal[i].comp
                row == k * vs + nth(components(map.param_map), i - 1)
                cur == nth(currents(map.state_map), i - 1)
                drop == nth(voltage_drops(map.state_map), i - 1)
                last == prev_time_step_soln(soln_vector, map, n_timesteps)
                rhs == SumSeq([w \in 1..Len(part.writes) |->
                                  IF k * vs + part.writes[w][1] = row
                                  THEN part.writes[w][2] ELSE 0])
                co(c) == coefficient(part.entries, row, c)
            IN  (~part.panic /\ comp.kind \in {"Capacitor", "Inductor"}) =>
                   /\ co(k * vs + cur)
                         = IF comp.kind = "Capacitor" THEN 0 - cfg.dt ELSE 0 - comp.val
                   /\ co(k * vs + drop)
                         = IF comp.kind = "Capacitor" THEN comp.val ELSE cfg.dt
                   /\ k = 0 =>
                         rhs = IF comp.kind = "Capacitor" THEN comp.val * At(last, drop)
                               ELSE (0 - comp.val) * At(last, cur)
                   /\ k >= 1 =>
                         /\ rhs = 0
                         /\ IF comp.kind = "Capacitor"
                            THEN co((k - 1) * vs + drop) = 0 - comp.val
                            ELSE co((k - 1) * vs + cur) = comp.val

\* The last block, block n_timesteps - 1, of the solution buffer
LastBlock ==
    LET vs == vector_size(map)
    IN  SubSeq(soln_vector, (n_timesteps - 1) * vs + 1, n_timesteps * vs)

\* C18: at the start of a Newton-Raphson step the candidate has length
\* vector_size * n_timesteps and each of its blocks equals the last block of
\* the solution buffer, and that last block is what stamp receives as
\* last_timestep.
C18_CandidateReplicatesLastBlock ==
    (pc = "nr_loop" /\ iter = 0) =>
        LET vs == vector_size(map)
        IN  /\ Len(new_state) = vs * n_timesteps
            /\ \A b \in 0..(n_timesteps - 1) : \A i \in 1..vs :
                  new_state[b * vs + i] = LastBlock[i]
            /\ prev_time_step_soln(soln_vector, map, n_timesteps) = LastBlock

\* C18 witness: a step starts on a buffer the step before has changed
C18_Witness ==
    /\ pc = "nr_loop"
    /\ iter = 0
    /\ SumSeq(soln_vector) > 0
    /\ new_state = soln_vector

\* C19: a Newton-Raphson step makes at most max_nr_iters rounds, and the
\* first round whose err is below nr_tolerance is its last: the step returns
\* Ok with that round's update applied to the candidate.
C19_NrStopsAtTolerance ==
    [][pc = "nr_loop" =>
          /\ iter < cfg.max_nr_iters
          /\ iter' = iter + 1
          /\ stamps' = stamps + 1
          /\ stamps' <= cfg.max_nr_iters
          /\ (pc' = "nr_loop") => (iter' < cfg.max_nr_iters)
          /\ (solves' = solves + 1 /\ failed' = failed /\ err' < cfg.nr_tolerance) =>
                /\ pc' = "idle"
                /\ exit' = "break"
                /\ result' = "ok"
                /\ soln_vector' = new_state'
                /\ Len(new_state') = Len(new_state)
                /\ err_of([i \in 1..Len(new_state) |-> new_state'[i] - new_state[i]])
                      = err' * cfg.nr_step_size * cfg.nr_step_size
      ]_vars

\* C19 witness: the first of two rounds had err 1, below the tolerance 2, and
\* its update is in the buffer
C19_Witness ==
    /\ exit = "break"
    /\ cfg.max_nr_iters = 2
    /\ iter = 1
    /\ err = 1
    /\ SumSeq(soln_vector) = 1

\* C20: when the err of a round is larger than that of the round before and
\* adaptive_step_size is enabled, the candidate is not advanced by that
\* round's update.
C20_AdaptiveStepSize ==
    [][(/\ pc = "nr_loop"
        /\ cfg.adaptive_step_size
        /\ solves' = solves + 1
        /\ failed' = failed
        /\ err' > last_err)
       => (IF pc' = "nr_loop" THEN new_state' = new_state
                              ELSE soln_vector' = new_state)
      ]_vars

\* The coefficient the definition v_drop = v_end - v_begin of the i-th
\* two-terminal component has on column c in block k, written as
\* v_drop - v_end + v_begin = 0; a ground terminal has no voltage column
voltage_law_coefficient(i, c, k) ==
    LET vs == vector_size(map)
        nodes == diagram.two_terminal[i].nodes
        drop == nth(voltage_drops(map.state_map), i - 1)
        begin_v == nth(voltages(map.state_map), nodes[1])
        end_v == nth(voltages(map.state_map), nodes[2])
        ind(b) == IF b THEN 1 ELSE 0
    IN  ind(c = k * vs + drop)
        - ind(end_v # None /\ c = k * vs + end_v)
        + ind(begin_v # None /\ c = k * vs + begin_v)

\* C21: in every block, the voltage-law row stamped for a two-terminal
\* component with nodes [begin, end] has right-hand side 0 and enforces
\* v_drop = v_end - v_begin between the component's voltage-drop slot and the
\* voltage slots of its end and begin nodes, a ground terminal contributing
\* voltage 0.  (The row may be scaled by -1.)
C21_VoltageLawRows ==
    (pc = "nr_loop" /\ WellFormed(diagram)) =>
        \A k \in 0..(n_timesteps - 1) :
        \A i \in 1..Len(diagram.two_terminal) :
            LET vs == vector_size(map)
                part == block_part(k)
                row == k * vs + nth(voltage_laws(map.param_map), i - 1)
            IN  ~part.panic =>
                   /\ \A w \in 1..Len(part.writes) : k * vs + part.writes[w][1] # row
                   /\ \E s \in {-1, 1} :
                         \A c \in 0..(vs * n_timesteps - 1) :
                            coefficient(part.entries, row, c)
                               = s * voltage_law_coefficient(i, c, k)

\* stamp_timestep, lines 53-54: the offset at which block k is stamped
block_offset(k) == vector_size(map) * n_timesteps * k

\* C21 as the code has it: in every block, the voltage-law row stamped for a
\* two-terminal component with nodes [begin, end] has right-hand side 0, +1
\* on the component's voltage drop, +1 on the end node's voltage and -1 on
\* the begin node's, at the offset of the block as stamp_timestep computes
\* it: it enforces v_drop = v_begin - v_end, a ground terminal contributing
\* voltage 0.
C21_VoltageLawRowsAsStamped ==
    (pc = "nr_loop" /\ WellFormed(diagram)) =>
        \A k \in 0..(n_timesteps - 1) :
        \A i \in 1..Len(diagram.two_terminal) :
            LET off == block_offset(k)
                part == block_part(k)
                nodes == diagram.two_terminal[i].nodes
                row == off + nth(voltage_laws(map.param_map), i - 1)
                drop == nth(voltage_drops(map.state_map), i - 1)
                begin_v == nth(voltages(map.state_map), nodes[1])
                end_v == nth(voltages(map.state_map), nodes[2])
                ind(b) == IF b THEN 1 ELSE 0
            IN  ~part.panic =>
                   /\ \A w \in 1..Len(part.writes) : part.writes[w][1] # row
                   /\ \A c \in 0..(off + vector_size(map)) :
                         coefficient(part.entries, row, c)
                            = ind(c = off + drop)
                              + ind(end_v # None /\ c = off + end_v)
                              - ind(begin_v # None /\ c = off + begin_v)
                   /\ \A e \in 1..Len(part.entries) :
                         part.entries[e][1] = row =>
                            part.entries[e][2] \in {off + drop, off + end_v, off + begin_v}

\* C21 witness: the second block of a window is stamped for a component that
\* runs from a non-ground node to the ground
C21_Witness ==
    /\ pc = "nr_loop"
    /\ n_timesteps = 2
    /\ diagram.num_nodes = 2
    /\ Len(diagram.two_terminal) = 1
    /\ diagram.two_terminal[1].comp.kind = "Resistor"
    /\ ~block_part(1).panic

\* The kinds whose law is linear and refers to no earlier time step
LinearKinds == {"Resistor", "Wire", "Switch", "Battery", "CurrentSource"}

\* The coefficient the law of the i-th two-terminal component, of a linear
\* kind, has on column c of block 0: Resistor V_drop - R I; Wire
\* V_end - V_begin; Switch I when open, V_drop when closed; Battery -V_drop;
\* CurrentSource I
law_coefficient(i, c) ==
    LET comp == diagram.two_terminal[i].comp
        nodes == diagram.two_terminal[i].nodes
        cur == nth(currents(map.state_map), i - 1)
        drop == nth(voltage_drops(map.state_map), i - 1)
        begin_v == nth(voltages(map.state_map), nodes[1])
        end_v == nth(voltages(map.state_map), nodes[2])
        ind(b) == IF b THEN 1 ELSE 0
    IN  CASE comp.kind = "Resistor" -> ind(c = drop) - comp.val * ind(c = cur)
          [] comp.kind = "Wire" ->
                ind(end_v # None /\ c = end_v) - ind(begin_v # None /\ c = begin_v)
          [] comp.kind = "Switch" ->
                IF comp.val = 1 THEN ind(c = cur) ELSE ind(c = drop)
          [] comp.kind = "Battery" -> 0 - ind(c = drop)
          [] comp.kind = "CurrentSource" -> ind(c = cur)

\* The right-hand side of the law of a component of a linear kind
law_rhs(comp) ==
    IF comp.kind \in {"Battery", "CurrentSource"} THEN comp.val ELSE 0

\* C22: the component row stamped for each linear two-terminal kind contains
\* exactly the coefficients of its law and nothing else: Resistor(R) +1 on
\* V_drop, -R on I, rhs 0; Wire +1 on the end node's voltage, -1 on the begin
\* node's, rhs 0; Switch(open) +1 on I only; Switch(closed) +1 on V_drop only;
\* Battery(V) -1 on V_drop, rhs V; CurrentSource(I0) +1 on I, rhs I0.
\* (Stated of the system stamp returns for a window of one block and a
\* topology of two-terminal components.)
C22_LinearComponentRows ==
    (/\ pc = "nr_loop"
     /\ WellFormed(diagram)
     /\ n_timesteps = 1
     /\ Len(diagram.three_terminal) = 0) =>
        LET st == stamp(cfg.dt, map, diagram, new_state,
                        prev_time_step_soln(soln_vector, map, n_timesteps), n_timesteps)
        IN  \A i \in 1..Len(diagram.two_terminal) :
               diagram.two_terminal[i].comp.kind \in LinearKinds =>
                  LET row == nth(components(map.param_map), i - 1)
                  IN  /\ ~st.panic
                      /\ At(st.params, row) = law_rhs(diagram.two_terminal[i].comp)
                      /\ \A c \in 0..(vector_size(map) - 1) :
                            coefficient(st.matrix, row, c) = law_coefficient(i, c)

\* Ranges r1, r2, r3 are consecutive and cover exactly 0..total in that order
Consecutive(r1, r2, r3, total) ==
    /\ r1.start = 0
    /\ r1.start <= r1.end
    /\ r2.start = r1.end
    /\ r2.start <= r2.end
    /\ r3.start = r2.end
    /\ r3.start <= r3.end
    /\ r3.end = total
    /\ \A x \in 0..(total - 1) :
          Cardinality({r \in {r1, r2, r3} : r.start <= x /\ x < r.end}) = 1

\* C23: for every topology the state ranges currents, voltage_drops, voltages
\* are consecutive, pairwise disjoint and together cover exactly
\* 0..vector_size in that order, and the equation ranges components,
\* current_laws, voltage_laws likewise; current_laws and voltages both have
\* length num_nodes.saturating_sub(1).
C23_RangesPartition ==
    pc # "unbuilt" =>
        LET sm == map.state_map
            pm == map.param_map
        IN  /\ Consecutive(currents(sm), voltage_drops(sm), voltages(sm), vector_size(map))
            /\ Consecutive(components(pm), current_laws(pm), voltage_laws(pm),
                           vector_size(map))
            /\ RangeLen(current_laws(pm)) = SatSub(diagram.num_nodes, 1)
            /\ RangeLen(voltages(sm)) = SatSub(diagram.num_nodes, 1)
            /\ diagram.num_nodes <= 1 =>
                  (RangeLen(current_laws(pm)) = 0 /\ RangeLen(voltages(sm)) = 0)

\* C23 witness: the mapping of the voltage divider, three components and
\* three nodes: currents 0..3, voltage drops 3..6, voltages 6..8
C23_Witness ==
    /\ pc = "idle"
    /\ diagram = VoltageDivider
    /\ voltage_drops(map.state_map) = Range(3, 6)
    /\ voltages(map.state_map) = Range(6, 8)
    /\ current_laws(map.param_map) = Range(3, 5)

\* The inductors other than the i-th that share its core id
core_mates(i) ==
    LET two == diagram.two_terminal
    IN  IF two[i].comp.kind # "Inductor" THEN {}
        ELSE IF two[i].comp.core_id = None THEN {}
        ELSE {j \in 1..Len(two) :
                 /\ j # i
                 /\ two[j].comp.kind = "Inductor"
                 /\ two[j].comp.core_id = two[i].comp.core_id}

\* C24: when two or more inductors share a core_id, the component row of
\* each has, besides its own -L and dt entries, one mutual-coupling entry on
\* the voltage-drop column of every other inductor with that core_id; an
\* inductor with no core_id, or whose core_id no other inductor shares, has
\* no entry on another component's column.  (Stated of block 0.)
C24_MutualCoupling ==
    pc = "nr_loop" =>
        \A i \in 1..Len(diagram.two_terminal) :
            LET part == block_part(0)
                row == nth(components(map.param_map), i - 1)
                cur(j) == nth(currents(map.state_map), j - 1)
                drop(j) == nth(voltage_drops(map.state_map), j - 1)
                others == (1..Len(diagram.two_terminal)) \ {i}
            IN  (~part.panic /\ diagram.two_terminal[i].comp.kind = "Inductor") =>
                   /\ \A j \in core_mates(i) :
                         coefficient(part.entries, row, drop(j)) # 0
                   /\ \A j \in others \ core_mates(i) :
                         coefficient(part.entries, row, drop(j)) = 0
                   /\ \A j \in others :
                         coefficient(part.entries, row, cur(j)) = 0

C28_ZeroItersReplicates ==
    [][(/\ pc = "idle"
        /\ outputs' = NoOutputs
        /\ cfg'.mode = "NewtonRaphson"
        /\ cfg'.max_nr_iters = 0)
       => (/\ pc' = "idle"
           /\ stamps' = 0
           /\ solves' = 0
           /\ result' = "ok"
           /\ Len(soln_vector') = Len(soln_vector)
           /\ \A b \in 0..(n_timesteps - 1) : \A i \in 1..vector_size(map) :
                 soln_vector'[b * vector_size(map) + i] = LastBlock[i])
      ]_vars

\* C28 witness: a step with max_nr_iters = 0 has returned on a buffer that
\* an earlier step had changed
C28_Witness ==
    /\ pc = "idle"
    /\ exit = "exhausted"
    /\ cfg.max_nr_iters = 0
    /\ stamps = 0
    /\ result = "ok"
    /\ outputs = NoOutputs
    /\ SumSeq(soln_vector) > 0

\* The selection is None or an index into the list it names
SelectionValid(ed) ==
    \/ ed.selected = NoSelection
    \/ /\ ed.selected[2]
       /\ InBounds(ed.three, ed.selected[1])
    \/ /\ ~ed.selected[2]
       /\ InBounds(ed.two, ed.selected[1])

\* C29: after any sequence of new_twoterminal, new_threeterminal, delete and
\* reset_selection calls the selection of the DiagramEditor is None or a
\* valid index into the list it names; right after new_twoterminal or
\* new_threeterminal it designates the component just added; delete never
\* removes at an index that is out of range.  Stated as what each call
\* keeps: from a diagram with a valid selection, every one of the four
\* calls leaves a valid selection and does not panic, and a delete right
\* after an addition removes the component just added.
C29_SelectionStaysValid ==
    (~app.crashed /\ SelectionValid(app.ed)) =>
        LET two == new_twoterminal(app.ed, ViewCell)
            three == new_threeterminal(app.ed, ViewCell)
        IN  /\ SelectionValid(two)
            /\ two.selected = <<Len(two.two) - 1, FALSE>>
            /\ SelectionValid(three)
            /\ three.selected = <<Len(three.three) - 1, TRUE>>
            /\ ~delete(app.ed).panic
            /\ SelectionValid(delete(app.ed))
            /\ SelectionValid(reset_selection(app.ed))
            /\ delete(two) = [app.ed EXCEPT !.selected = NoSelection]
            /\ delete(three) = [app.ed EXCEPT !.selected = NoSelection]

\* C25: in the frame loop, every call of Solver::step and Solver::state is
\* made on a Solver built from a topology with the same number of nodes and
\* of components as the topology passed to the call; a frame that changes
\* these counts rebuilds the Solver, with a zeroed buffer, before its step.
C25_SolverMatchesDiagram ==
    [][/\ app'.frame.state_matched
       /\ app'.frame.step_matched
       /\ (~app'.crashed /\ app'.sim.built) => app'.sim.topology = Topology(app'.ed)
       /\ (~app'.crashed /\ Topology(app'.ed) # Topology(app.ed)) =>
             /\ app'.frame.rebuilt
             /\ app'.frame.steps = 1
             /\ app'.sim.buffer = IF app'.frame.step_result = "ok" THEN "stepped"
                                  ELSE "zero"
      ]_vars

\* C25 witness: a drag has put both terminals of a component on one cell,
\* and the frame called state(), rebuilt the Solver for the one node that
\* is left and stepped it
C25_Witness ==
    /\ ~app.crashed
    /\ app.frame.state_called
    /\ app.frame.rebuilt
    /\ app.frame.steps = 1
    /\ app.sim.topology = <<1, 1, 0>>
    /\ Topology(app.ed) = <<1, 1, 0>>

\* C26: when step() returns an error the application does not crash: it
\* stores the message and sets paused; the stored message stays until a
\* later step succeeds.
C26_StepErrorPauses ==
    [][/\ app'.frame.step_result = "err" =>
             /\ ~app'.crashed
             /\ app'.error # NoError
             /\ app'.paused
       /\ (app.error # NoError /\ app'.error = NoError) =>
             app'.frame.step_result = "ok"
       /\ app'.frame.step_result = "ok" => app'.error = NoError
      ]_vars

\* C26 witness: a frame that made no step shows the message an earlier
\* failed step has stored, and the simulation is paused
C26_Witness ==
    /\ ~app.crashed
    /\ app.error # NoError
    /\ app.paused
    /\ app.frame.state_called
    /\ app.frame.steps = 0

\* C30: a frame that is paused (save.paused as line 412 reads it) steps only
\* when Single-step was clicked or the Solver was rebuilt in that frame, and
\* otherwise leaves the Solver and its buffer as they were; every frame that
\* is not paused makes exactly one step() call.  Frames are those that
\* update() runs to its end.
C30_PausedFramesDoNotStep ==
    [][~app'.crashed =>
          /\ (app'.frame.paused /\ app'.frame.steps = 1) =>
                (app'.frame.single_step \/ app'.frame.rebuilt)
          /\ (app'.frame.paused /\ ~app'.frame.single_step /\ ~app'.frame.rebuilt) =>
                /\ app'.frame.steps = 0
                /\ app'.sim = app.sim
          /\ ~app'.frame.paused => (app'.sim.built /\ app'.frame.steps = 1)
          /\ app'.frame.steps \in {0, 1}
      ]_vars

\* C30 witness: a paused frame without a rebuild has made a step because
\* Single-step was clicked
C30_Witness ==
    /\ ~app.crashed
    /\ app.frame.paused
    /\ app.frame.single_step
    /\ ~app.frame.rebuilt
    /\ app.frame.steps = 1

====
